---- MODULE Spec2Model ----
(***************************************************************************)
(* A model of the session-reconstruction pipeline of AI-Agent-Host:        *)
(*   timestamp_utils.py          decoder, correlator, classifier           *)
(*   conversation_parser_clean.py message assembler                        *)
(*   questdb_inserter_fixed.py   batch sink and its command line           *)
(*                                                                         *)
(* Text is a sequence of one-character strings.  Characters outside ASCII  *)
(* and control characters carry a name: "NL" is the newline, "ESC" is      *)
(* \x1B, "BULLET" is the bullet glyph, "HOOK" the tool-result glyph,       *)
(* "CHECK" and "CROSS" the success and error glyphs, "PROMPT1" and         *)
(* "PROMPT2" the two shell-prompt glyphs.                                  *)
(*                                                                         *)
(* Time is counted in whole seconds: a delay "1.0" is the number 1, and    *)
(* an instant is a number of seconds.  Floating-point rounding and         *)
(* non-finite delays are outside the model.                                *)
(***************************************************************************)
EXTENDS Integers, Sequences, FiniteSets, TLC

VARIABLES
    pc,                  \* position of the run
    timing_log,          \* the timing file: its status and the lines read so far
    session_log,         \* the transcript file: its status and decoded content
    meta_file,           \* the metadata document: status, start_time, session_id
    session_start_time,  \* TimestampExtractor.session_start_time
    cumulative_time,     \* TimestampExtractor.cumulative_time
    timing_events,       \* the TimingEvent list
    warnings,            \* number of "Could not parse timing line" warnings
    reported,            \* the error conditions written to stderr
    calls,               \* the pipeline stages that have been invoked
    conversation_events, \* the classifier's result
    messages,            \* the ConversationMessage list
    connection,          \* QuestDBInserter.connection: "none", "open" or "closed"
    rows,                \* the rows written to the chat table
    successful_messages, \* insert_messages_batch: successful_messages
    failed_messages,     \* insert_messages_batch: failed_messages
    attempts,            \* number of insert_message calls made
    exit_status          \* the status main returns; -1 while running

vars == <<pc, timing_log, session_log, meta_file, session_start_time,
          cumulative_time, timing_events, warnings, reported, calls,
          conversation_events, messages, connection, rows,
          successful_messages, failed_messages, attempts, exit_status>>

(***************************************************************************)
(* Text helpers: what str.strip, str.split, str.lower and re.search do.    *)
(***************************************************************************)

\* The whitespace of str.strip() and of the regular expression class \s.
Whitespace == {" ", "NL"}

UpperChars == {"R", "I", "L", "E", "W", "B"}

LowerChars ==
    {"a", "b", "c", "d", "e", "f", "g", "h", "i", "k", "l", "m", "n", "o", "p",
     "q", "r", "s", "t", "u", "w", "x", "y"}

\* The regular expression class \w.
WordChars == UpperChars \cup LowerChars \cup {"0", "_"}

\* str.lower() of one character.
LowerChar(c) ==
    CASE c = "R" -> "r"
      [] c = "I" -> "i"
      [] c = "L" -> "l"
      [] c = "E" -> "e"
      [] c = "W" -> "w"
      [] c = "B" -> "b"
      [] OTHER -> c

lower(s) == [i \in 1..Len(s) |-> LowerChar(s[i])]

RECURSIVE LStrip(_)
LStrip(s) ==
    IF s # <<>> /\ Head(s) \in Whitespace THEN LStrip(Tail(s)) ELSE s

RECURSIVE RStrip(_)
RStrip(s) ==
    IF s # <<>> /\ s[Len(s)] \in Whitespace
    THEN RStrip(SubSeq(s, 1, Len(s) - 1))
    ELSE s

\* str.strip()
strip(s) == RStrip(LStrip(s))

\* re.search of a literal pattern: pat occurs in s at position i.
MatchAt(s, pat, i) ==
    /\ i + Len(pat) - 1 <= Len(s)
    /\ SubSeq(s, i, i + Len(pat) - 1) = pat

search(pat, s) == \E i \in 1..Len(s) : MatchAt(s, pat, i)

\* str.split('\n'): the lines of s, of which there is always at least one.
RECURSIVE split_lines(_)
split_lines(s) ==
    IF \A i \in 1..Len(s) : s[i] # "NL"
    THEN <<s>>
    ELSE LET k == CHOOSE i \in 1..Len(s) :
                      /\ s[i] = "NL"
                      /\ \A j \in 1..(i - 1) : s[j] # "NL"
         IN  <<SubSeq(s, 1, k - 1)>> \o split_lines(SubSeq(s, k + 1, Len(s)))

\* The end of the maximal run of characters of class cls that starts at i
\* (i - 1 when the run is empty).
Range(s) == { s[i] : i \in 1..Len(s) }

RECURSIVE RunEnd(_, _, _)
RunEnd(s, cls, i) ==
    IF i <= Len(s) /\ s[i] \in cls THEN RunEnd(s, cls, i + 1) ELSE i - 1

(***************************************************************************)
(* ConversationTimestampProcessor: the marker tables and the predicates.   *)
(***************************************************************************)

user_prompt_patterns ==
    << <<">", " ">>, <<"$", " ">>, <<"PROMPT1", " ">>, <<"PROMPT2", " ">> >>

\* A marker table in which the bullet does not mark a response.
claude_response_patterns_unbulleted ==
    << <<"I", "'", "l", "l", " ">>,
       <<"L", "e", "t", " ", "m", "e", " ">>,
       <<"CHECK">>,
       <<"CROSS">> >>

claude_response_patterns ==
    << <<"BULLET">>,
       <<"I", "'", "l", "l", " ">>,
       <<"L", "e", "t", " ", "m", "e", " ">>,
       <<"CHECK">>,
       <<"CROSS">> >>

\* r'● (\w+)\(' matched at i: bullet, space, one or more word characters, '('.
ToolCallAt(s, i) ==
    /\ i + 3 <= Len(s)
    /\ s[i] = "BULLET"
    /\ s[i + 1] = " "
    /\ s[i + 2] \in WordChars
    /\ LET e == RunEnd(s, WordChars, i + 2)
       IN  e + 1 <= Len(s) /\ s[e + 1] = "("

\* The two literal entries of tool_usage_patterns.
tool_usage_literals ==
    << <<"HOOK">>, <<"R", "u", "n", "n", "i", "n", "g", ":", " ">> >>

\* A fallback that leaves blank lines out of the count of lines.
is_user_input_nonblank(content) ==
    \/ \E p \in 1..Len(user_prompt_patterns) : search(user_prompt_patterns[p], content)
    \/ LET lines == split_lines(content)
           filled == SelectSeq(lines, LAMBDA line : strip(line) # <<>>)
       IN  /\ Len(filled) <= 3
           /\ Len(filled) > 0
           /\ ~ \E p \in 1..Len(claude_response_patterns) :
                    search(claude_response_patterns[p], content)

is_user_input(content) ==
    \/ \E p \in 1..Len(user_prompt_patterns) : search(user_prompt_patterns[p], content)
    \/ LET lines == split_lines(content)
       IN  /\ Len(lines) <= 3
           /\ \E k \in 1..Len(lines) : strip(lines[k]) # <<>>
           /\ ~ \E p \in 1..Len(claude_response_patterns) :
                    search(claude_response_patterns[p], content)

is_claude_response(content) ==
    \E p \in 1..Len(claude_response_patterns) :
        search(claude_response_patterns[p], content)

is_tool_usage(content) ==
    \/ \E i \in 1..Len(content) : ToolCallAt(content, i)
    \/ \E p \in 1..Len(tool_usage_literals) : search(tool_usage_literals[p], content)

\* r'● (\w+)\((.*?)\)' matched at i: the tool call, then the shortest run of
\* characters other than newline that a ')' follows.
ToolInfoAt(s, i) ==
    /\ ToolCallAt(s, i)
    /\ LET open == RunEnd(s, WordChars, i + 2) + 1
       IN  \E j \in (open + 1)..Len(s) :
               /\ s[j] = ")"
               /\ \A k \in (open + 1)..(j - 1) : s[k] # "NL"

extract_tool_info(content) ==
    IF \E i \in 1..Len(content) : ToolInfoAt(content, i)
    THEN LET i == CHOOSE a \in 1..Len(content) :
                      /\ ToolInfoAt(content, a)
                      /\ \A b \in 1..(a - 1) : ~ ToolInfoAt(content, b)
             open == RunEnd(content, WordChars, i + 2) + 1
             close == CHOOSE j \in (open + 1)..Len(content) :
                          /\ content[j] = ")"
                          /\ \A k \in (open + 1)..(j - 1) : content[k] \notin {")", "NL"}
         IN  [tool_name |-> lower(SubSeq(content, i + 2, open - 1)),
              tool_args |-> SubSeq(content, open + 1, close - 1)]
    ELSE <<>>

\* The character classes of the escape-sequence expression
\* \x1B(?:[@-Z\\-_]|\[[0-?]*[ -/]*[@-~]).
AnsiSingle == UpperChars \cup {"_"}

AnsiParameter == {"0", ":", ">"}

AnsiIntermediate == {" ", "$", "'", "(", ")"}

AnsiFinal == UpperChars \cup LowerChars \cup {"[", "_"}

\* The last position of the escape sequence that starts at 1, or 0 when
\* none starts there.
AnsiEnd(s) ==
    IF Len(s) < 2 \/ s[1] # "ESC" THEN 0
    ELSE IF s[2] \in AnsiSingle THEN 2
    ELSE IF s[2] # "[" THEN 0
    ELSE LET p == RunEnd(s, AnsiParameter, 3)
             q == RunEnd(s, AnsiIntermediate, p + 1)
         IN  IF q + 1 <= Len(s) /\ s[q + 1] \in AnsiFinal THEN q + 1 ELSE 0

\* ansi_escape.sub('', content)
RECURSIVE RemoveAnsi(_)
RemoveAnsi(s) ==
    IF s = <<>> THEN <<>>
    ELSE IF AnsiEnd(s) > 0 THEN RemoveAnsi(SubSeq(s, AnsiEnd(s) + 1, Len(s)))
    ELSE <<Head(s)>> \o RemoveAnsi(Tail(s))

\* re.sub(r'\s+', ' ', s)
RECURSIVE CollapseWhitespace(_)
CollapseWhitespace(s) ==
    IF s = <<>> THEN <<>>
    ELSE IF Head(s) \in Whitespace
    THEN <<" ">> \o CollapseWhitespace(LStrip(s))
    ELSE <<Head(s)>> \o CollapseWhitespace(Tail(s))

\* A cleaning that leaves the space at the ends.
clean_content_untrimmed(content) == CollapseWhitespace(RemoveAnsi(content))

clean_content(content) == strip(CollapseWhitespace(RemoveAnsi(content)))

\* A classifier that tests for a response before it tests for user input.
DetectOneResponseFirst(event) ==
    LET content == strip(event.content)
        kind == IF content = <<>> THEN "none"
                ELSE IF is_claude_response(content) THEN "claude_response"
                ELSE IF is_user_input(content) THEN "user_input"
                ELSE "none"
    IN  IF kind = "none" THEN <<>>
        ELSE << [timestamp |-> event.timestamp,
                 type |-> kind,
                 content |-> clean_content(content),
                 raw_content |-> content,
                 cumulative_time |-> event.cumulative_time] >>

\* One iteration of the loop of detect_conversation_events: the events it
\* appends for one TimingEvent (none or one).
DetectOne(event) ==
    LET content == strip(event.content)
    IN  IF content = <<>> THEN <<>>
        ELSE IF is_user_input(content)
        THEN << [timestamp |-> event.timestamp,
                 type |-> "user_input",
                 content |-> clean_content(content),
                 raw_content |-> content,
                 cumulative_time |-> event.cumulative_time] >>
        ELSE IF is_claude_response(content)
        THEN << [timestamp |-> event.timestamp,
                 type |-> "claude_response",
                 content |-> clean_content(content),
                 raw_content |-> content,
                 cumulative_time |-> event.cumulative_time] >>
        ELSE IF is_tool_usage(content)
        THEN LET tool_info == extract_tool_info(content)
             IN  << [timestamp |-> event.timestamp,
                     type |-> "tool_usage",
                     content |-> clean_content(content),
                     raw_content |-> content,
                     tool_name |-> IF "tool_name" \in DOMAIN tool_info
                                   THEN tool_info.tool_name
                                   ELSE <<"u", "n", "k", "n", "o", "w", "n">>,
                     tool_args |-> IF "tool_args" \in DOMAIN tool_info
                                   THEN tool_info.tool_args
                                   ELSE <<>>,
                     cumulative_time |-> event.cumulative_time] >>
        ELSE <<>>

RECURSIVE detect_conversation_events(_)
detect_conversation_events(events) ==
    IF events = <<>> THEN <<>>
    ELSE DetectOne(Head(events)) \o detect_conversation_events(Tail(events))

(***************************************************************************)
(* TimestampExtractor.correlate_with_session_log: the loop over the        *)
(* events, with Python's slices, which clamp to the content.               *)
(***************************************************************************)

Max(a, b) == IF a >= b THEN a ELSE b

Min(a, b) == IF a <= b THEN a ELSE b

\* A slice that stops one character short.
SliceShort(content, from, to) ==
    SubSeq(content, Min(from, Len(content)) + 1, Min(to, Len(content)) - 1)

\* content[from:to] with 0-based bounds.
Slice(content, from, to) ==
    SubSeq(content, Min(from, Len(content)) + 1, Min(to, Len(content)))

\* A chunk size without the floor of one character.
chunk_size_floor(content, events) == Len(content) \div Len(events)

chunk_size(content, events) == Max(1, Len(content) \div Len(events))

\* The events from index i on, given content_pos at the start of iteration i.
RECURSIVE CorrelateFrom(_, _, _, _)
CorrelateFrom(events, content, i, content_pos) ==
    IF i > Len(events) THEN <<>>
    ELSE IF i + 1 <= Len(events)
    THEN LET size == chunk_size(content, events)
             chunk == Slice(content, content_pos, content_pos + size)
         IN  <<[events[i] EXCEPT !.content = chunk]>>
                 \o CorrelateFrom(events, content, i + 1, content_pos + size)
    ELSE <<[events[i] EXCEPT !.content = Slice(content, content_pos, Len(content))]>>

(***************************************************************************)
(* ConversationParser: the pattern tables and the enrichment functions.    *)
(* A pattern is the list of its elements: a character stands for itself,   *)
(* "ANY?" is .? and "ANY*" is .* (a dot matches all but the newline).      *)
(* A score is a number of hundredths: 75 is 0.75.                          *)
(***************************************************************************)

\* The end of the match of pattern elements k.. at position i of s, as
\* re finds it (the longer alternative first), or -1 when there is none.
\* The end of an empty match at i is i - 1.
RECURSIVE MatchEnd(_, _, _, _)
RECURSIVE StarEnd(_, _, _, _, _)
MatchEnd(pat, k, s, i) ==
    IF k > Len(pat) THEN i - 1
    ELSE IF pat[k] = "ANY?"
    THEN LET taken == IF i <= Len(s) /\ s[i] # "NL"
                      THEN MatchEnd(pat, k + 1, s, i + 1)
                      ELSE -1
         IN  IF taken # -1 THEN taken ELSE MatchEnd(pat, k + 1, s, i)
    ELSE IF pat[k] = "ANY*"
    THEN StarEnd(pat, k, s, i, RunEnd(s, {c \in Range(s) : c # "NL"}, i) + 1)
    ELSE IF i <= Len(s) /\ s[i] = pat[k]
    THEN MatchEnd(pat, k + 1, s, i + 1)
    ELSE -1

\* The star of element k has taken the characters i..j-1; it gives them
\* back one at a time until the rest of the pattern matches.
StarEnd(pat, k, s, i, j) ==
    LET rest == MatchEnd(pat, k + 1, s, j)
    IN  IF rest # -1 THEN rest
        ELSE IF j > i THEN StarEnd(pat, k, s, i, j - 1)
        ELSE -1

\* len(re.findall(pattern, s)) from position i on: matches do not overlap.
RECURSIVE CountMatches(_, _, _)
CountMatches(pat, s, i) ==
    IF i > Len(s) THEN 0
    ELSE LET e == MatchEnd(pat, 1, s, i)
         IN  IF e = -1 THEN CountMatches(pat, s, i + 1)
             ELSE 1 + CountMatches(pat, s, Max(e, i) + 1)

findall(pat, s) == CountMatches(pat, s, 1)

\* _build_project_patterns, in the order of the table.
project_tag_patterns ==
    << [project |-> "ai-agent-host",
        patterns |-> << <<"a", "i", "ANY?", "a", "g", "e", "n", "t", "ANY?", "h", "o", "s", "t">>,
                        <<"c", "l", "a", "u", "d", "e", "ANY?", "c", "o", "d", "e">>,
                        <<"q", "u", "e", "s", "t", "d", "b">>,
                        <<"g", "r", "a", "f", "a", "n", "a">>,
                        <<"d", "o", "c", "k", "e", "r", "ANY*", "s", "t", "a", "c", "k">>,
                        <<"a", "g", "e", "n", "t", "i", "c", "ANY*",
                          "e", "n", "v", "i", "r", "o", "n", "m", "e", "n", "t">> >>],
       [project |-> "python",
        patterns |-> << <<"p", "y", "t", "h", "o", "n">>,
                        <<".", "p", "y">>,
                        <<"p", "i", "p">>,
                        <<"c", "o", "n", "d", "a">>,
                        <<"j", "u", "p", "y", "t", "e", "r">>,
                        <<"p", "a", "n", "d", "a", "s">>,
                        <<"n", "u", "m", "p", "y">>,
                        <<"m", "a", "t", "p", "l", "o", "t", "l", "i", "b">> >>],
       [project |-> "docker",
        patterns |-> << <<"d", "o", "c", "k", "e", "r">>,
                        <<"c", "o", "n", "t", "a", "i", "n", "e", "r">>,
                        <<"c", "o", "m", "p", "o", "s", "e">>,
                        <<"d", "o", "c", "k", "e", "r", "f", "i", "l", "e">>,
                        <<"i", "m", "a", "g", "e", "ANY*", "b", "u", "i", "l", "d">>,
                        <<"d", "o", "c", "k", "e", "r", "ANY*", "r", "u", "n">> >>],
       [project |-> "database",
        patterns |-> << <<"q", "u", "e", "s", "t", "d", "b">>,
                        <<"s", "q", "l">>,
                        <<"s", "c", "h", "e", "m", "a">>,
                        <<"t", "a", "b", "l", "e">>,
                        <<"q", "u", "e", "r", "y">>,
                        <<"d", "a", "t", "a", "b", "a", "s", "e">>,
                        <<"t", "i", "m", "e", "ANY?", "s", "e", "r", "i", "e", "s">> >>] >>

\* A table in which the error glyph weighs as the error words do.
quality_indicators_even ==
    << [pattern |-> <<"CHECK">>, score_delta |-> 10],
       [pattern |-> <<"s", "u", "c", "c", "e", "s", "s", "f", "u", "l", "l", "y">>,
        score_delta |-> 5],
       [pattern |-> <<"c", "o", "m", "p", "l", "e", "t", "e", "d">>, score_delta |-> 5],
       [pattern |-> <<"CROSS">>, score_delta |-> -10],
       [pattern |-> <<"e", "r", "r", "o", "r">>, score_delta |-> -10],
       [pattern |-> <<"f", "a", "i", "l", "e", "d">>, score_delta |-> -10] >>

\* _build_quality_patterns, in the order of the table.
quality_indicators ==
    << [pattern |-> <<"CHECK">>, score_delta |-> 10],
       [pattern |-> <<"s", "u", "c", "c", "e", "s", "s", "f", "u", "l", "l", "y">>,
        score_delta |-> 5],
       [pattern |-> <<"c", "o", "m", "p", "l", "e", "t", "e", "d">>, score_delta |-> 5],
       [pattern |-> <<"CROSS">>, score_delta |-> -20],
       [pattern |-> <<"e", "r", "r", "o", "r">>, score_delta |-> -10],
       [pattern |-> <<"f", "a", "i", "l", "e", "d">>, score_delta |-> -10] >>

\* The sum of the counts of the patterns k.. of one project in content_lower.
RECURSIVE ProjectScore(_, _, _)
ProjectScore(patterns, content_lower, k) ==
    IF k > Len(patterns) THEN 0
    ELSE findall(patterns[k], content_lower)
             + ProjectScore(patterns, content_lower, k + 1)

\* A maximum that a later project with the same score takes over.
ReplacesOnTie(score, held) == score >= held

\* max keeps the first of equal scores.
Replaces(score, held) == score > held

\* max(scores, key=scores.get) over the projects k.. whose score is above
\* zero, best being the first project with the highest score so far (0 for
\* none): a later project replaces it only with a higher score.
RECURSIVE MaxProject(_, _, _)
MaxProject(content_lower, k, best) ==
    IF k > Len(project_tag_patterns) THEN best
    ELSE LET score == ProjectScore(project_tag_patterns[k].patterns, content_lower, 1)
             held == IF best = 0 THEN 0
                     ELSE ProjectScore(project_tag_patterns[best].patterns, content_lower, 1)
         IN  MaxProject(content_lower, k + 1, IF Replaces(score, held) THEN k ELSE best)

detect_project_tag(content) ==
    LET best == MaxProject(lower(content), 1, 0)
    IN  IF best = 0 THEN <<>> ELSE <<project_tag_patterns[best].project>>

\* max(1, len(content) // 4)
estimate_context_tokens(content) == Max(1, Len(content) \div 4)

\* base_score after the indicators k.. have been added to it.
RECURSIVE AddIndicators(_, _, _)
AddIndicators(base_score, content, k) ==
    IF k > Len(quality_indicators) THEN base_score
    ELSE AddIndicators(
             base_score + findall(quality_indicators[k].pattern, lower(content))
                              * quality_indicators[k].score_delta,
             content, k + 1)

\* A quality assessment that does not clamp the score.
assess_response_quality_unclamped(content, message_type) ==
    IF message_type # "claude_response" THEN <<>>
    ELSE << AddIndicators(75, content, 1) >>

assess_response_quality(content, message_type) ==
    IF message_type # "claude_response" THEN <<>>
    ELSE << Max(10, Min(100, AddIndicators(75, content, 1))) >>

\* The regular expression class [\w\-/\.].
PathChars == WordChars \cup {"-", "/", "."}

\* The least of the given positions from i on, or 0: the positions before
\* it hold no newline, which a dot does not match.
LazySkip(s, i, positions) ==
    LET hits == { j \in positions :
                    j >= i /\ \A k \in i..(j - 1) : s[k] # "NL" }
    IN  IF hits = {} THEN 0
        ELSE CHOOSE j \in hits : \A h \in hits : j <= h

\* The group of r'<call>\((.*?)\)' matched at i, in a sequence, or none;
\* call is the literal up to and with the parenthesis, in lower case.
CallGroupAt(s, call, i) ==
    IF ~ MatchAt(lower(s), call, i) THEN <<>>
    ELSE LET open == i + Len(call)
             close == LazySkip(s, open, { j \in 1..Len(s) : s[j] = ")" })
         IN  IF close = 0 THEN <<>> ELSE << SubSeq(s, open, close - 1) >>

\* The group of r'● Bash.*?(/?[\w\-/\.]+)' matched at i, or none.
BashGroupAt(s, i) ==
    LET bash == <<"BULLET", " ", "b", "a", "s", "h">>
    IN  IF ~ MatchAt(lower(s), bash, i) THEN <<>>
        ELSE LET from == LazySkip(s, i + Len(bash),
                                  { j \in 1..Len(s) : s[j] \in PathChars })
             IN  IF from = 0 THEN <<>>
                 ELSE << SubSeq(s, from, RunEnd(s, PathChars, from)) >>

\* The group of r'created.*?(/[\w\-/\.]+)' matched at i, or none.
CreatedGroupAt(s, i) ==
    LET created == <<"c", "r", "e", "a", "t", "e", "d">>
    IN  IF ~ MatchAt(lower(s), created, i) THEN <<>>
        ELSE LET from == LazySkip(s, i + Len(created),
                              { j \in 1..(Len(s) - 1) :
                                  s[j] = "/" /\ s[j + 1] \in PathChars })
             IN  IF from = 0 THEN <<>>
                 ELSE << SubSeq(s, from, RunEnd(s, PathChars, from + 1)) >>

\* _build_file_patterns, in the order of the table: the group of pattern k
\* matched at i.
FileGroupAt(s, k, i) ==
    CASE k = 1 -> CallGroupAt(s, <<"BULLET", " ", "r", "e", "a", "d", "(">>, i)
      [] k = 2 -> CallGroupAt(s, <<"BULLET", " ", "w", "r", "i", "t", "e", "(">>, i)
      [] k = 3 -> CallGroupAt(s, <<"BULLET", " ", "e", "d", "i", "t", "(">>, i)
      [] k = 4 -> BashGroupAt(s, i)
      [] k = 5 -> CreatedGroupAt(s, i)

\* re.search of file pattern k: the group of its leftmost match, or none.
RECURSIVE FileSearch(_, _, _)
FileSearch(s, k, i) ==
    IF i > Len(s) THEN <<>>
    ELSE IF FileGroupAt(s, k, i) # <<>> THEN FileGroupAt(s, k, i)
    ELSE FileSearch(s, k, i + 1)

\* extract_file_info: the file path of the first pattern from k on that
\* matches, or none.
RECURSIVE FileInfoFrom(_, _)
FileInfoFrom(content, k) ==
    IF k > 5 THEN <<>>
    ELSE IF FileSearch(content, k, 1) # <<>> THEN FileSearch(content, k, 1)
    ELSE FileInfoFrom(content, k + 1)

extract_file_info(content) == FileInfoFrom(content, 1)

(***************************************************************************)
(* Inputs.  A timing line is the list of its whitespace-separated fields   *)
(* (none for a blank line); a field is a decimal literal such as "1.0"     *)
(* (float() reads it, int() does not), an integer literal such as "50"     *)
(* (both read it) or junk (neither reads it).                              *)
(***************************************************************************)

Dec(n) == [kind |-> "dec", val |-> n]

Int50 == [kind |-> "int", val |-> 50]

Int30 == [kind |-> "int", val |-> 30]

Junk == [kind |-> "junk", val |-> 0]

float_ok(field) == field.kind \in {"dec", "int"}

int_ok(field) == field.kind = "int"

\* The lines offered to the decoder on its own.
DecoderLines ==
    { <<>>,                          \* a blank line
      <<Dec(1), Int50>>,             \* "1.0 50"
      <<Dec(2), Int30>>,             \* "2.0 30"
      <<Dec(0), Int50>>,             \* "0.0 50"
      <<Dec(-1), Int50>>,            \* "-1.0 50"
      <<Int30, Int50>>,              \* "30 50"
      <<Junk, Int50>>,               \* "O 50"
      <<Dec(1), Junk>>,              \* "1.0 x"
      <<Dec(1), Dec(5)>>,            \* "1.0 5.0"
      <<Dec(1)>>,                    \* "1.0"
      <<Junk>>,                      \* "garbage"
      <<Dec(1), Int50, Junk>> }      \* "1.0 50 extra"

\* The lines offered in a whole run.
RunLines ==
    { <<Dec(1), Int50>>, <<Dec(2), Int30>>, <<Dec(-1), Int50>>, <<Junk>>,
      <<Junk, Int50>> }

\* The one line offered where only the number of events matters.
PlainLines == { <<Dec(1), Int50>> }

StartInstants == {0, 60}

SessionIds == {"s1"}

MaxLines == 3

MaxRunLines == 2

MaxEvents == 3

MaxLength == 5

MaxPieces == 3

MaxRunPieces == 2

\* All texts of at most n characters over the alphabet.
RECURSIVE Texts(_, _)
Texts(alphabet, n) ==
    IF n = 0 THEN { <<>> }
    ELSE LET shorter == Texts(alphabet, n - 1)
         IN  shorter \cup { t \o <<c>> : t \in shorter, c \in alphabet }

\* All concatenations of at most n pieces.
RECURSIVE Pieced(_, _)
Pieced(pieces, n) ==
    IF n = 0 THEN { <<>> }
    ELSE LET shorter == Pieced(pieces, n - 1)
         IN  shorter \cup { t \o p : t \in shorter, p \in pieces }

\* Transcripts for the correlator on its own: the characters differ, so a
\* lost, repeated or displaced character shows.
CorrelatorTranscripts == Texts({"a", "x"}, MaxLength)

\* Transcripts for the classifier on its own.
ClassifierPieces ==
    { <<">", " ">>, <<">">>, <<" ">>, <<"NL">>, <<"x">>,
      <<"x", "NL">>, <<"x", "NL", "NL">>, <<"NL", "x">>,
      <<"BULLET", " ", "R", "e", "a", "d", "(">>, <<"x", ")">>,
      <<"L", "e", "t", " ", "m", "e", " ">>,
      <<"HOOK">>, <<"ESC", "[", "0", "m">>,
      <<")", "NL", "NL", "NL", "x">> }

ClassifierTranscripts == Pieced(ClassifierPieces, MaxPieces)

\* Transcripts for a whole run.
RunPieces ==
    { <<">", " ", "x">>, <<"BULLET", " ", "x">>, <<"HOOK", "x">>,
      <<"NL", "NL", "NL", "NL">>, <<"ESC", "[", "0", "m">> }

RunTranscripts == Pieced(RunPieces, MaxRunPieces)

MaxRepeat == 7

MaxTagPieces == 3

\* n copies of a piece, one after the other.
RECURSIVE Repeat(_, _)
Repeat(piece, n) == IF n = 0 THEN <<>> ELSE piece \o Repeat(piece, n - 1)

\* Transcripts for the quality score: a response or a prompt that holds one
\* error or success indicator up to MaxRepeat times and then one indicator
\* more, or none.
RepeatedPieces ==
    { <<"CHECK">>, <<"CROSS">>, <<"E", "r", "r", "o", "r">>,
      <<"f", "a", "i", "l", "e", "d">> }

QualityPieces ==
    RepeatedPieces \cup
        { <<>>,
          <<"s", "u", "c", "c", "e", "s", "s", "f", "u", "l", "l", "y">>,
          <<"c", "o", "m", "p", "l", "e", "t", "e", "d">> }

QualityTranscripts ==
    { prefix \o Repeat(p, n) \o q :
        prefix \in { <<"BULLET", " ">>, <<">", " ">> },
        p \in RepeatedPieces, q \in QualityPieces, n \in 0..MaxRepeat }

\* Transcripts for the project tag.
TagPieces ==
    { <<"q", "u", "e", "s", "t", "d", "b", " ">>,
      <<"s", "q", "l", " ">>,
      <<"p", "y", "t", "h", "o", "n", " ">>,
      <<"d", "o", "c", "k", "e", "r", " ">>,
      <<"r", "u", "n", " ">>,
      <<"a", "i", "-", "a", "g", "e", "n", "t", " ", "h", "o", "s", "t", " ">> }

TagTranscripts == Pieced(TagPieces, MaxTagPieces)

\* Transcripts for the file path.
FilePieces ==
    { <<"BULLET", " ", "R", "e", "a", "d", "(">>,
      <<"BULLET", " ", "B", "a", "s", "h", "(">>,
      <<"c", "r", "e", "a", "t", "e", "d", " ">>,
      <<"/", "x", ".", "p", "y", ")", " ">>,
      <<"HOOK", " ">> }

FileTranscripts == Pieced(FilePieces, MaxTagPieces)

AssemblerTranscripts == QualityTranscripts \cup TagTranscripts \cup FileTranscripts

MaxBatch == 2

\* if len(message.content) > 100000
content_ceiling == 100000

\* A text of n characters.
LongText(n) == [i \in 1..n |-> "x"]

\* A message the sink accepts.
GoodMessage ==
    [timestamp |-> 0,
     session_id |-> "s1",
     message_type |-> "claude_response",
     content |-> <<"x">>,
     project_tag |-> <<>>,
     tool_used |-> <<>>,
     file_modified |-> <<>>,
     context_tokens |-> 1,
     response_quality |-> <<75>>,
     raw_content |-> <<>>]

\* GoodMessage with timestamp = None.
Untimed ==
    [field \in DOMAIN GoodMessage \ {"timestamp"} |-> GoodMessage[field]]

\* Messages for the sink on its own: the good one, and messages that differ
\* from it in one field.
SinkMessages ==
    { GoodMessage, Untimed }
        \cup { [GoodMessage EXCEPT !.session_id = ""] }
        \cup { [GoodMessage EXCEPT !.message_type = kind, !.response_quality = <<>>] :
                   kind \in {"", "summary", "user_input", "system_info"} }
        \cup { [GoodMessage EXCEPT !.content = content] :
                   content \in { <<>>, <<" ", "NL">>,
                                 LongText(content_ceiling), LongText(content_ceiling + 1) } }
        \cup { [GoodMessage EXCEPT !.response_quality = <<score>>] :
                   score \in {-1, 0, 100, 101} }

(***************************************************************************)
(* The state after construction: nothing has run; the files are what the   *)
(* environment holds.  The transcript is chosen when it is read.           *)
(***************************************************************************)

MetaFiles ==
    { [status |-> "missing", start_time |-> 0, session_id |-> ""] }
        \cup [status : {"ok"}, start_time : StartInstants, session_id : SessionIds]

Init ==
    /\ pc = "main"
    /\ timing_log \in [status : {"ok", "missing", "unreadable"}, lines : { <<>> }]
    /\ session_log = [status |-> "unread", content |-> <<>>]
    /\ meta_file \in MetaFiles
    /\ session_start_time = 0
    /\ cumulative_time = 0
    /\ timing_events = <<>>
    /\ warnings = 0
    /\ reported = {}
    /\ calls = {}
    /\ conversation_events = <<>>
    /\ messages = <<>>
    /\ connection = "none"
    /\ rows = <<>>
    /\ successful_messages = <<>>
    /\ failed_messages = <<>>
    /\ attempts = 0
    /\ exit_status = -1

\* main returns status: the finally clause disconnects when the try block
\* had been entered.
Return(status, in_try) ==
    /\ exit_status' = status
    /\ connection' = IF in_try THEN "closed" ELSE connection
    /\ pc' = "exit"

(***************************************************************************)
(* questdb_inserter_fixed.main, up to the parse.                           *)
(***************************************************************************)

Connect ==
    /\ pc = "main"
    /\ \E ok \in BOOLEAN :
           IF ok
           THEN /\ connection' = "open"
                /\ pc' = "create_table"
                /\ UNCHANGED <<reported, exit_status>>
           ELSE /\ reported' = reported \cup {"connect_failed"}
                /\ Return(1, FALSE)
    /\ UNCHANGED <<timing_log, session_log, meta_file, session_start_time,
                   cumulative_time, timing_events, warnings, calls,
                   conversation_events, messages, rows, successful_messages,
                   failed_messages, attempts>>

MainCreateTable ==
    /\ pc = "create_table"
    /\ \E create_table \in BOOLEAN, created \in BOOLEAN, dummy_log \in BOOLEAN :
           IF create_table /\ ~created
           THEN /\ reported' = reported \cup {"create_table_failed"}
                /\ Return(1, TRUE)
           ELSE IF create_table /\ dummy_log
           THEN /\ Return(0, TRUE)
                /\ UNCHANGED reported
           ELSE /\ pc' = "load_metadata"
                /\ UNCHANGED <<reported, exit_status, connection>>
    /\ UNCHANGED <<timing_log, session_log, meta_file, session_start_time,
                   cumulative_time, timing_events, warnings, calls,
                   conversation_events, messages, rows, successful_messages,
                   failed_messages, attempts>>

(***************************************************************************)
(* extract_timestamps_from_session.                                        *)
(***************************************************************************)

\* An extractor that goes on from the time its predecessor stopped at.
carried_cumulative_time == cumulative_time

\* TimestampExtractor.__init__: self.cumulative_time = 0.0
fresh_cumulative_time == 0

\* load_session_metadata, the start time, and TimestampExtractor.__init__.
LoadMetadata ==
    /\ pc = "load_metadata"
    /\ IF meta_file.status = "ok"
       THEN /\ session_start_time' = meta_file.start_time
            /\ UNCHANGED reported
       ELSE /\ \E now \in StartInstants : session_start_time' = now
            /\ reported' = reported \cup {"metadata_not_found"}
    /\ cumulative_time' = fresh_cumulative_time
    /\ pc' = "open_timing"
    /\ UNCHANGED <<timing_log, session_log, meta_file, timing_events, warnings,
                   calls, conversation_events, messages, connection, rows,
                   successful_messages, failed_messages, attempts, exit_status>>

\* parse_script_timing_file: the open, and the two handlers around it.
OpenTiming ==
    /\ pc = "open_timing"
    /\ calls' = calls \cup {"decoder"}
    /\ timing_events' = <<>>
    /\ IF timing_log.status = "ok"
       THEN /\ pc' = "parse"
            /\ UNCHANGED reported
       ELSE /\ pc' = "parsed"
            /\ reported' = reported \cup
                   { IF timing_log.status = "missing"
                     THEN "timing_file_not_found"
                     ELSE "timing_file_error" }
    /\ UNCHANGED <<timing_log, session_log, meta_file, session_start_time,
                   cumulative_time, warnings, conversation_events, messages,
                   connection, rows, successful_messages, failed_messages,
                   attempts, exit_status>>

\* A decoder that assigns the delay where it should add it.
AccumulateAssigned(cumulative, delay) == delay

\* self.cumulative_time += delay
Accumulate(cumulative, delay) == cumulative + delay

\* A decoder that counts the elapsed time back from the start.
TimestampBackwards(start, cumulative) == start - cumulative

\* self.session_start_time + timedelta(seconds=self.cumulative_time)
Timestamp(start, cumulative) == start + cumulative

\* A decoder that takes only lines of exactly two fields.
HasExactlyTwoFields(parts) == Len(parts) = 2

\* if len(parts) >= 2
HasFields(parts) == Len(parts) >= 2

\* The body of the loop of parse_script_timing_file for the next line.
ParseLine(lines, max_lines) ==
    /\ pc = "parse"
    /\ Len(timing_log.lines) < max_lines
    /\ \E parts \in lines :
        /\ timing_log' = [timing_log EXCEPT !.lines = Append(@, parts)]
        /\ IF parts = <<>>
           THEN UNCHANGED <<cumulative_time, timing_events, warnings>>
           ELSE IF HasFields(parts)
           THEN IF float_ok(parts[1]) /\ int_ok(parts[2])
                THEN LET delay == parts[1].val
                         total == Accumulate(cumulative_time, delay)
                     IN  /\ cumulative_time' = total
                         /\ timing_events' = Append(timing_events,
                                [delay |-> delay,
                                 content |-> <<>>,
                                 cumulative_time |-> total,
                                 timestamp |-> Timestamp(session_start_time, total)])
                         /\ UNCHANGED warnings
                ELSE /\ warnings' = warnings + 1
                     /\ UNCHANGED <<cumulative_time, timing_events>>
           ELSE UNCHANGED <<cumulative_time, timing_events, warnings>>
    /\ UNCHANGED <<pc, session_log, meta_file, session_start_time, reported,
                   calls, conversation_events, messages, connection, rows,
                   successful_messages, failed_messages, attempts, exit_status>>

\* The end of the file: parse_script_timing_file returns timing_events.
ParseEOF ==
    /\ pc = "parse"
    /\ pc' = "parsed"
    /\ UNCHANGED <<timing_log, session_log, meta_file, session_start_time,
                   cumulative_time, timing_events, warnings, reported, calls,
                   conversation_events, messages, connection, rows,
                   successful_messages, failed_messages, attempts, exit_status>>

\* An extractor that goes on to the correlator whatever the decoder returned.
CheckTimingEventsSkipped ==
    /\ pc = "parsed"
    /\ pc' = "correlate"
    /\ UNCHANGED <<timing_log, session_log, meta_file, session_start_time,
                   cumulative_time, timing_events, warnings, reported, calls,
                   conversation_events, messages, connection, rows,
                   successful_messages, failed_messages, attempts, exit_status>>

\* if not timing_events: report and return no events.
CheckTimingEvents ==
    /\ pc = "parsed"
    /\ IF timing_events = <<>>
       THEN /\ reported' = reported \cup {"no_timing_events"}
            /\ conversation_events' = <<>>
            /\ pc' = "events"
       ELSE /\ pc' = "correlate"
            /\ UNCHANGED <<reported, conversation_events>>
    /\ UNCHANGED <<timing_log, session_log, meta_file, session_start_time,
                   cumulative_time, timing_events, warnings, calls, messages,
                   connection, rows, successful_messages, failed_messages,
                   attempts, exit_status>>

\* A correlator whose handlers return no events.
CorrelateDropping(transcripts) ==
    /\ pc = "correlate"
    /\ calls' = calls \cup {"correlator"}
    /\ \/ \E content \in transcripts :
            /\ session_log' = [status |-> "ok", content |-> content]
            /\ timing_events' = CorrelateFrom(timing_events, content, 1, 0)
            /\ UNCHANGED reported
       \/ \E status \in {"missing", "unreadable"} :
            /\ session_log' = [status |-> status, content |-> <<>>]
            /\ reported' = reported \cup
                   { IF status = "missing"
                     THEN "session_log_not_found"
                     ELSE "session_log_error" }
            /\ timing_events' = <<>>
    /\ pc' = "detect"
    /\ UNCHANGED <<timing_log, meta_file, session_start_time, cumulative_time,
                   warnings, conversation_events, messages, connection, rows,
                   successful_messages, failed_messages, attempts, exit_status>>

\* correlate_with_session_log: the read, the loop, and the two handlers.
Correlate(transcripts) ==
    /\ pc = "correlate"
    /\ calls' = calls \cup {"correlator"}
    /\ \/ \E content \in transcripts :
            /\ session_log' = [status |-> "ok", content |-> content]
            /\ timing_events' = CorrelateFrom(timing_events, content, 1, 0)
            /\ UNCHANGED reported
       \/ \E status \in {"missing", "unreadable"} :
            /\ session_log' = [status |-> status, content |-> <<>>]
            /\ reported' = reported \cup
                   { IF status = "missing"
                     THEN "session_log_not_found"
                     ELSE "session_log_error" }
            /\ UNCHANGED timing_events
    /\ pc' = "detect"
    /\ UNCHANGED <<timing_log, meta_file, session_start_time, cumulative_time,
                   warnings, conversation_events, messages, connection, rows,
                   successful_messages, failed_messages, attempts, exit_status>>

\* ConversationTimestampProcessor().detect_conversation_events(timing_events)
Detect ==
    /\ pc = "detect"
    /\ calls' = calls \cup {"classifier"}
    /\ conversation_events' = detect_conversation_events(timing_events)
    /\ pc' = "events"
    /\ UNCHANGED <<timing_log, session_log, meta_file, session_start_time,
                   cumulative_time, timing_events, warnings, reported, messages,
                   connection, rows, successful_messages, failed_messages,
                   attempts, exit_status>>

(***************************************************************************)
(* ConversationParser.parse_session_to_messages, after the events are      *)
(* back.  An optional value is a sequence of no or one element.            *)
(***************************************************************************)

ConversationMessage(event, session_id) ==
    [timestamp |-> event.timestamp,
     session_id |-> session_id,
     message_type |-> event.type,
     content |-> event.content,
     project_tag |-> detect_project_tag(event.content),
     tool_used |-> IF event.type = "tool_usage" THEN <<event.tool_name>> ELSE <<>>,
     file_modified |-> IF event.type \in {"claude_response", "tool_usage"}
                       THEN extract_file_info(event.content)
                       ELSE <<>>,
     context_tokens |-> estimate_context_tokens(event.content),
     response_quality |-> assess_response_quality(event.content, event.type),
     raw_content |-> <<event.raw_content>>]

\* An assembler that returns the messages last event first.
AssembleMessagesReversed ==
    /\ pc = "events"
    /\ IF conversation_events = <<>>
       THEN /\ reported' = reported \cup {"no_conversation_events"}
            /\ messages' = <<>>
       ELSE LET session_id == IF meta_file.status = "ok"
                              THEN meta_file.session_id
                              ELSE "unknown"
                n == Len(conversation_events)
            IN  /\ messages' = [i \in 1..n |->
                                   ConversationMessage(conversation_events[n + 1 - i], session_id)]
                /\ reported' = IF meta_file.status = "ok"
                               THEN reported
                               ELSE reported \cup {"metadata_unreadable"}
    /\ pc' = "messages"
    /\ UNCHANGED <<timing_log, session_log, meta_file, session_start_time,
                   cumulative_time, timing_events, warnings, calls,
                   conversation_events, connection, rows, successful_messages,
                   failed_messages, attempts, exit_status>>

AssembleMessages ==
    /\ pc = "events"
    /\ IF conversation_events = <<>>
       THEN /\ reported' = reported \cup {"no_conversation_events"}
            /\ messages' = <<>>
       ELSE LET session_id == IF meta_file.status = "ok"
                              THEN meta_file.session_id
                              ELSE "unknown"
            IN  /\ messages' = [i \in 1..Len(conversation_events) |->
                                   ConversationMessage(conversation_events[i], session_id)]
                /\ reported' = IF meta_file.status = "ok"
                               THEN reported
                               ELSE reported \cup {"metadata_unreadable"}
    /\ pc' = "messages"
    /\ UNCHANGED <<timing_log, session_log, meta_file, session_start_time,
                   cumulative_time, timing_events, warnings, calls,
                   conversation_events, connection, rows, successful_messages,
                   failed_messages, attempts, exit_status>>

(***************************************************************************)
(* questdb_inserter_fixed: the rest of main, and the batch sink.           *)
(***************************************************************************)

MainCheckMessages ==
    /\ pc = "messages"
    /\ IF messages = <<>>
       THEN /\ reported' = reported \cup {"no_messages_to_insert"}
            /\ Return(1, TRUE)
       ELSE /\ pc' = "insert"
            /\ UNCHANGED <<reported, exit_status, connection>>
    /\ UNCHANGED <<timing_log, session_log, meta_file, session_start_time,
                   cumulative_time, timing_events, warnings, calls,
                   conversation_events, messages, rows, successful_messages,
                   failed_messages, attempts>>

valid_types == {"user_input", "claude_response", "tool_usage", "system_info"}

\* A validation that lets any content, kind and score through.
validate_message_lenient(message) ==
    IF "timestamp" \notin DOMAIN message THEN <<"Missing timestamp">>
    ELSE IF message.session_id = "" THEN <<"Missing session_id">>
    ELSE <<>>

\* validate_message: the error, or none.  A message whose timestamp is None
\* is a record without the field.
validate_message(message) ==
    IF "timestamp" \notin DOMAIN message THEN <<"Missing timestamp">>
    ELSE IF message.session_id = "" THEN <<"Missing session_id">>
    ELSE IF message.message_type = "" THEN <<"Missing message_type">>
    ELSE IF message.content = <<>> \/ strip(message.content) = <<>>
    THEN <<"Empty content">>
    ELSE IF message.message_type \notin valid_types THEN <<"Invalid message_type">>
    ELSE IF Len(message.content) > content_ceiling THEN <<"Content too large">>
    ELSE IF /\ message.response_quality # <<>>
            /\ ~ (0 <= message.response_quality[1] /\ message.response_quality[1] <= 100)
    THEN <<"Invalid response_quality">>
    ELSE <<>>

\* The row insert_message writes for a message.
Row(message) ==
    [timestamp |-> message.timestamp,
     session_id |-> message.session_id,
     message_type |-> message.message_type,
     content |-> message.content,
     project_tag |-> message.project_tag,
     tool_used |-> message.tool_used,
     file_modified |-> message.file_modified,
     context_tokens |-> message.context_tokens,
     response_quality |-> message.response_quality,
     streaming |-> FALSE]

\* A loop that gives up at the first message that fails.
InsertMessageStopping ==
    /\ pc = "insert"
    /\ attempts < Len(messages)
    /\ LET message == messages[attempts + 1]
           error == validate_message(message)
       IN  IF error # <<>>
           THEN /\ failed_messages' = Append(failed_messages,
                       [message |-> message, error |-> error[1]])
                /\ attempts' = Len(messages)
                /\ UNCHANGED <<rows, successful_messages>>
           ELSE \E written \in BOOLEAN :
                   IF written
                   THEN /\ rows' = Append(rows, Row(message))
                        /\ successful_messages' = Append(successful_messages, message)
                        /\ attempts' = attempts + 1
                        /\ UNCHANGED failed_messages
                   ELSE /\ failed_messages' = Append(failed_messages,
                               [message |-> message, error |-> "write error"])
                        /\ attempts' = Len(messages)
                        /\ UNCHANGED <<rows, successful_messages>>
    /\ UNCHANGED <<pc, timing_log, session_log, meta_file, session_start_time,
                   cumulative_time, timing_events, warnings, reported, calls,
                   conversation_events, messages, connection, exit_status>>

\* One iteration of the loop of insert_messages_batch: insert_message on the
\* next message, whose write the database accepts or refuses.
InsertMessage ==
    /\ pc = "insert"
    /\ attempts < Len(messages)
    /\ LET message == messages[attempts + 1]
           error == validate_message(message)
       IN  IF error # <<>>
           THEN /\ failed_messages' = Append(failed_messages,
                       [message |-> message, error |-> error[1]])
                /\ UNCHANGED <<rows, successful_messages>>
           ELSE \E written \in BOOLEAN :
                   IF written
                   THEN /\ rows' = Append(rows, Row(message))
                        /\ successful_messages' = Append(successful_messages, message)
                        /\ UNCHANGED failed_messages
                   ELSE /\ failed_messages' = Append(failed_messages,
                               [message |-> message, error |-> "write error"])
                        /\ UNCHANGED <<rows, successful_messages>>
    /\ attempts' = attempts + 1
    /\ UNCHANGED <<pc, timing_log, session_log, meta_file, session_start_time,
                   cumulative_time, timing_events, warnings, reported, calls,
                   conversation_events, messages, connection, exit_status>>

\* A main that returns 0 whatever the batch did.
MainReturnZero ==
    /\ pc = "insert"
    /\ attempts = Len(messages)
    /\ Return(0, TRUE)
    /\ UNCHANGED <<timing_log, session_log, meta_file, session_start_time,
                   cumulative_time, timing_events, warnings, reported, calls,
                   conversation_events, messages, rows, successful_messages,
                   failed_messages, attempts>>

\* The batch is done: main reports and returns 0 or 2.
MainReturn ==
    /\ pc = "insert"
    /\ attempts = Len(messages)
    /\ Return(IF Len(failed_messages) = 0 THEN 0 ELSE 2, TRUE)
    /\ UNCHANGED <<timing_log, session_log, meta_file, session_start_time,
                   cumulative_time, timing_events, warnings, reported, calls,
                   conversation_events, messages, rows, successful_messages,
                   failed_messages, attempts>>

(***************************************************************************)
(* questdb_stream_inserter: main and stream_message.  The message data is  *)
(* the decoded JSON object; a key it does not hold is a field with no      *)
(* element.  The run keeps the object in messages and its row in rows.     *)
(***************************************************************************)

\* A limit that is the one of the batch sink.
stream_content_limit_of_batch == content_ceiling

\* content[:10000]
stream_content_limit == 10000

\* any(word in content_lower for word in words)
AnyWord(words, content_lower) == \E word \in words : search(word, content_lower)

\* QuestDBStreamInserter.detect_project_tag
stream_detect_project_tag(content) ==
    LET content_lower == lower(content)
    IN  IF AnyWord({ <<"p", "y", "t", "h", "o", "n">>, <<"p", "i", "p">>,
                     <<".", "p", "y">> }, content_lower)
        THEN <<"python">>
        ELSE IF AnyWord({ <<"d", "o", "c", "k", "e", "r">>,
                          <<"c", "o", "n", "t", "a", "i", "n", "e", "r">> }, content_lower)
        THEN <<"docker">>
        ELSE IF AnyWord({ <<"q", "u", "e", "s", "t", "d", "b">>, <<"s", "q", "l">>,
                          <<"d", "a", "t", "a", "b", "a", "s", "e">> }, content_lower)
        THEN <<"database">>
        ELSE IF AnyWord({ <<"j", "a", "v", "a", "s", "c", "r", "i", "p", "t">>,
                          <<"j", "s">>, <<"n", "o", "d", "e">> }, content_lower)
        THEN <<"javascript">>
        ELSE <<>>

\* QuestDBStreamInserter.assess_response_quality, in hundredths.
stream_assess_response_quality(content, message_type) ==
    IF message_type # "claude_response" THEN <<>>
    ELSE LET base_score ==
                 75 + (IF search(<<"CHECK">>, content) THEN 10 ELSE 0)
                    - (IF search(<<"CROSS">>, content) THEN 20 ELSE 0)
                    + (IF search(<<"s", "u", "c", "c", "e", "s", "s", "f", "u", "l", "l", "y">>,
                                 lower(content)) THEN 5 ELSE 0)
                    - (IF search(<<"e", "r", "r", "o", "r">>, lower(content))
                       THEN 10 ELSE 0)
         IN  << Max(10, Min(100, base_score)) >>

\* dict.get(key, default) on a field of the message data.
Get(field, default) == IF field = <<>> THEN default ELSE field[1]

\* The values stream_message hands to the INSERT, given the instant that
\* stands in for a missing timestamp.
StreamRow(message_data, now) ==
    LET content == Get(message_data.content, <<>>)
        message_type == Get(message_data.message_type, "unknown")
    IN  [timestamp |-> Get(message_data.timestamp, now),
         session_id |-> Get(message_data.session_id, "unknown"),
         message_type |-> message_type,
         content |-> SubSeq(content, 1, Min(stream_content_limit, Len(content))),
         project_tag |-> IF message_data.project_tag # <<>>
                         THEN message_data.project_tag
                         ELSE stream_detect_project_tag(content),
         tool_used |-> message_data.tool_used,
         file_modified |-> message_data.file_modified,
         context_tokens |-> Get(message_data.context_tokens, Len(content) \div 4),
         response_quality |-> IF /\ message_data.response_quality # <<>>
                                 /\ message_data.response_quality[1] # 0
                              THEN message_data.response_quality
                              ELSE stream_assess_response_quality(content, message_type),
         streaming |-> Get(message_data.streaming, TRUE)]

\* The objects handed to the streaming sink: short ones that leave the tag
\* and the score to the sink, and long ones that bring their tag.
StreamData ==
    [timestamp : { <<>>, <<60>> },
     session_id : { <<"s1">> },
     message_type : { <<>>, <<"claude_response">> },
     content : { <<>>, << <<"CROSS", " ", "s", "q", "l">> >> },
     project_tag : { <<>> },
     tool_used : { <<>> },
     file_modified : { <<>> },
     context_tokens : { <<>>, <<7>> },
     response_quality : { <<>>, <<0>>, <<90>> },
     streaming : { <<>>, <<TRUE>>, <<FALSE>> }]
    \cup
    [timestamp : { <<60>> },
     session_id : { <<"s1">> },
     message_type : { <<>> },
     content : { << LongText(stream_content_limit) >>,
                 << <<"a">> \o LongText(stream_content_limit) >> },
     project_tag : { <<"python">> },
     tool_used : { <<>> },
     file_modified : { <<>> },
     context_tokens : { <<>> },
     response_quality : { <<>> },
     streaming : { <<>>, <<TRUE>>, <<FALSE>> }]

\* main of the streaming sink, up to the connection: the message data is
\* loaded and the inserter connects.
StreamConnect ==
    /\ pc = "stream_main"
    /\ \E ok \in BOOLEAN :
           IF ok
           THEN /\ connection' = "open"
                /\ pc' = "stream_connected"
                /\ UNCHANGED exit_status
           ELSE /\ exit_status' = 1
                /\ pc' = "stream_exit"
                /\ UNCHANGED connection
    /\ UNCHANGED <<timing_log, session_log, meta_file, session_start_time,
                   cumulative_time, timing_events, warnings, reported, calls,
                   conversation_events, messages, rows, successful_messages,
                   failed_messages, attempts>>

\* stream_message on the message data, whose write the database accepts or
\* refuses, and the return of main through the finally clause.
StreamMessage ==
    /\ pc = "stream_connected"
    /\ \E written \in BOOLEAN, now \in StartInstants :
           IF written
           THEN /\ rows' = Append(rows, StreamRow(messages[1], now))
                /\ exit_status' = 0
           ELSE /\ exit_status' = 1
                /\ UNCHANGED rows
    /\ attempts' = attempts + 1
    /\ connection' = "closed"
    /\ pc' = "stream_exit"
    /\ UNCHANGED <<timing_log, session_log, meta_file, session_start_time,
                   cumulative_time, timing_events, warnings, reported, calls,
                   conversation_events, messages, successful_messages,
                   failed_messages>>

(***************************************************************************)
(* The pipeline as functions of its inputs: what a call returns for given  *)
(* files and a given start instant.                                        *)
(***************************************************************************)

\* The loop of parse_script_timing_file from line k on.
RECURSIVE DecodeFrom(_, _, _, _)
DecodeFrom(lines, k, start, cumulative) ==
    IF k > Len(lines) THEN <<>>
    ELSE LET parts == lines[k]
         IN  IF /\ parts # <<>>
                /\ HasFields(parts)
                /\ float_ok(parts[1])
                /\ int_ok(parts[2])
             THEN LET total == Accumulate(cumulative, parts[1].val)
                  IN  << [delay |-> parts[1].val,
                          content |-> <<>>,
                          cumulative_time |-> total,
                          timestamp |-> Timestamp(start, total)] >>
                          \o DecodeFrom(lines, k + 1, start, total)
             ELSE DecodeFrom(lines, k + 1, start, cumulative)

\* TimestampExtractor(start).parse_script_timing_file(timing_log)
parse_script_timing_file(timing, start) ==
    IF timing.status # "ok" THEN <<>>
    ELSE DecodeFrom(timing.lines, 1, start, fresh_cumulative_time)

correlate_with_session_log(events, session) ==
    IF session.status = "ok"
    THEN CorrelateFrom(events, session.content, 1, 0)
    ELSE events

extract_timestamps_from_session(session, timing, start) ==
    LET events == parse_script_timing_file(timing, start)
    IN  IF events = <<>> THEN <<>>
        ELSE detect_conversation_events(correlate_with_session_log(events, session))

parse_session_to_messages(session, timing, meta, start) ==
    LET events == extract_timestamps_from_session(session, timing, start)
        session_id == IF meta.status = "ok" THEN meta.session_id ELSE "unknown"
    IN  [i \in 1..Len(events) |-> ConversationMessage(events[i], session_id)]

(***************************************************************************)
(* Several invocations of extract_timestamps_from_session at once.  Where  *)
(* sessions are processed together, pc, timing_log, session_start_time,    *)
(* cumulative_time and timing_events hold one value per invocation: they   *)
(* are the locals of the call and the attributes of the TimestampExtractor *)
(* it constructs.  The invocations take turns line by line in any order.   *)
(***************************************************************************)

\* The invocations in flight.
Sessions == {1, 2}

\* The lines of the timing files of sessions processed together.
SessionLines == { <<Dec(1), Int50>>, <<Dec(2), Int30>>, <<Junk, Int50>> }

MaxSessionLines == 2

\* One extractor that every invocation uses.
ExtractorShared(session) == 1

\* extractor = TimestampExtractor(start_time): an object of the invocation
Extractor(session) == session

\* The start time, and TimestampExtractor.__init__, of one invocation.
SessionStart(session) ==
    /\ pc[session] = "load_metadata"
    /\ \E start_time \in StartInstants :
           session_start_time' = [session_start_time EXCEPT ![session] = start_time]
    /\ cumulative_time' =
           [cumulative_time EXCEPT ![Extractor(session)] = fresh_cumulative_time]
    /\ timing_events' = [timing_events EXCEPT ![session] = <<>>]
    /\ pc' = [pc EXCEPT ![session] = "parse"]
    /\ UNCHANGED <<timing_log, session_log, meta_file, warnings, reported,
                   calls, conversation_events, messages, connection, rows,
                   successful_messages, failed_messages, attempts, exit_status>>

\* The body of the loop of parse_script_timing_file in one invocation.
SessionParseLine(session) ==
    /\ pc[session] = "parse"
    /\ Len(timing_log[session].lines) < MaxSessionLines
    /\ \E parts \in SessionLines :
        /\ timing_log' = [timing_log EXCEPT ![session].lines = Append(@, parts)]
        /\ IF parts = <<>>
           THEN UNCHANGED <<cumulative_time, timing_events, warnings>>
           ELSE IF HasFields(parts)
           THEN IF float_ok(parts[1]) /\ int_ok(parts[2])
                THEN LET delay == parts[1].val
                         total == Accumulate(cumulative_time[Extractor(session)], delay)
                     IN  /\ cumulative_time' =
                                [cumulative_time EXCEPT ![Extractor(session)] = total]
                         /\ timing_events' =
                                [timing_events EXCEPT ![session] = Append(@,
                                    [delay |-> delay,
                                     content |-> <<>>,
                                     cumulative_time |-> total,
                                     timestamp |-> Timestamp(session_start_time[session],
                                                             total)])]
                         /\ UNCHANGED warnings
                ELSE /\ warnings' = warnings + 1
                     /\ UNCHANGED <<cumulative_time, timing_events>>
           ELSE UNCHANGED <<cumulative_time, timing_events, warnings>>
    /\ UNCHANGED <<pc, session_log, meta_file, session_start_time, reported,
                   calls, conversation_events, messages, connection, rows,
                   successful_messages, failed_messages, attempts, exit_status>>

\* The end of the timing file of one invocation.
SessionParseEOF(session) ==
    /\ pc[session] = "parse"
    /\ pc' = [pc EXCEPT ![session] = "parsed"]
    /\ UNCHANGED <<timing_log, session_log, meta_file, session_start_time,
                   cumulative_time, timing_events, warnings, reported, calls,
                   conversation_events, messages, connection, rows,
                   successful_messages, failed_messages, attempts, exit_status>>

(***************************************************************************)
(* Specifications.  Spec is a whole batch run.  The others run the same    *)
(* program up to one component, which they offer a wider set of inputs.    *)
(***************************************************************************)

Next ==
    \/ Connect
    \/ MainCreateTable
    \/ LoadMetadata
    \/ OpenTiming
    \/ ParseLine(RunLines, MaxRunLines)
    \/ ParseEOF
    \/ CheckTimingEvents
    \/ Correlate(RunTranscripts)
    \/ Detect
    \/ AssembleMessages
    \/ MainCheckMessages
    \/ InsertMessage
    \/ MainReturn

Spec == Init /\ [][Next]_vars

NextDecoder ==
    \/ Connect
    \/ MainCreateTable
    \/ LoadMetadata
    \/ OpenTiming
    \/ ParseLine(DecoderLines, MaxLines)
    \/ ParseEOF

SpecDecoder == Init /\ [][NextDecoder]_vars

\* A readable timing file and metadata document.
InitReadable ==
    /\ Init
    /\ timing_log.status = "ok"
    /\ meta_file.status = "ok"
    /\ meta_file.start_time = 0

NextCorrelator ==
    \/ Connect
    \/ MainCreateTable
    \/ LoadMetadata
    \/ OpenTiming
    \/ ParseLine(PlainLines, MaxEvents)
    \/ ParseEOF
    \/ CheckTimingEvents
    \/ Correlate(CorrelatorTranscripts)

SpecCorrelator == InitReadable /\ [][NextCorrelator]_vars

\* A readable timing file, with any metadata document.
InitAssembler == Init /\ timing_log.status = "ok"

NextAssembler ==
    \/ Connect
    \/ MainCreateTable
    \/ LoadMetadata
    \/ OpenTiming
    \/ ParseLine(PlainLines, 1)
    \/ ParseEOF
    \/ CheckTimingEvents
    \/ Correlate(AssemblerTranscripts)
    \/ Detect
    \/ AssembleMessages

SpecAssembler == InitAssembler /\ [][NextAssembler]_vars

\* insert_messages_batch called on an open connection with a list of
\* messages.
InitSink ==
    /\ pc = "insert"
    /\ timing_log = [status |-> "ok", lines |-> <<>>]
    /\ session_log = [status |-> "unread", content |-> <<>>]
    /\ meta_file \in { f \in MetaFiles : f.status = "missing" }
    /\ session_start_time = 0
    /\ cumulative_time = 0
    /\ timing_events = <<>>
    /\ warnings = 0
    /\ reported = {}
    /\ calls = {}
    /\ conversation_events = <<>>
    /\ \E n \in 1..MaxBatch : messages \in [1..n -> SinkMessages]
    /\ connection = "open"
    /\ rows = <<>>
    /\ successful_messages = <<>>
    /\ failed_messages = <<>>
    /\ attempts = 0
    /\ exit_status = -1

NextSink ==
    \/ InsertMessage
    \/ MainReturn

SpecSink == InitSink /\ [][NextSink]_vars

\* The streaming sink started on one object.
InitStream ==
    /\ pc = "stream_main"
    /\ timing_log = [status |-> "ok", lines |-> <<>>]
    /\ session_log = [status |-> "unread", content |-> <<>>]
    /\ meta_file \in { f \in MetaFiles : f.status = "missing" }
    /\ session_start_time = 0
    /\ cumulative_time = 0
    /\ timing_events = <<>>
    /\ warnings = 0
    /\ reported = {}
    /\ calls = {}
    /\ conversation_events = <<>>
    /\ \E message_data \in StreamData : messages = << message_data >>
    /\ connection = "none"
    /\ rows = <<>>
    /\ successful_messages = <<>>
    /\ failed_messages = <<>>
    /\ attempts = 0
    /\ exit_status = -1

\* The two sinks: a run is one of the batch sink on a list of messages or
\* one of the streaming sink on an object.
InitSinks == InitSink \/ InitStream

NextSinks ==
    \/ InsertMessage
    \/ MainReturn
    \/ StreamConnect
    \/ StreamMessage

SpecSinks == InitSinks /\ [][NextSinks]_vars

\* Every invocation is about to start; each timing file is readable.
InitSessions ==
    /\ pc = [session \in Sessions |-> "load_metadata"]
    /\ timing_log = [session \in Sessions |-> [status |-> "ok", lines |-> <<>>]]
    /\ session_log = [status |-> "unread", content |-> <<>>]
    /\ meta_file \in MetaFiles
    /\ session_start_time = [session \in Sessions |-> 0]
    /\ cumulative_time = [session \in Sessions |-> 0]
    /\ timing_events = [session \in Sessions |-> <<>>]
    /\ warnings = 0
    /\ reported = {}
    /\ calls = {}
    /\ conversation_events = <<>>
    /\ messages = <<>>
    /\ connection = "none"
    /\ rows = <<>>
    /\ successful_messages = <<>>
    /\ failed_messages = <<>>
    /\ attempts = 0
    /\ exit_status = -1

NextSessions ==
    \E session \in Sessions :
        \/ SessionStart(session)
        \/ SessionParseLine(session)
        \/ SessionParseEOF(session)

SpecSessions == InitSessions /\ [][NextSessions]_vars

NextClassifier ==
    \/ Connect
    \/ MainCreateTable
    \/ LoadMetadata
    \/ OpenTiming
    \/ ParseLine(PlainLines, 1)
    \/ ParseEOF
    \/ CheckTimingEvents
    \/ Correlate(ClassifierTranscripts)
    \/ Detect

SpecClassifier == InitReadable /\ [][NextClassifier]_vars

(***************************************************************************)
(* Claims.                                                                 *)
(***************************************************************************)

\* A line from which a delay and a byte count can be read: at least two
\* fields, the first a number, the second an integer.
WellFormedLine(parts) ==
    /\ Len(parts) >= 2
    /\ parts[1].kind \in {"dec", "int"}
    /\ parts[2].kind = "int"

WellFormed(lines) == SelectSeq(lines, WellFormedLine)

\* The sum of the delays of the first n lines of a list of well-formed lines.
RECURSIVE SumDelays(_, _)
SumDelays(lines, n) ==
    IF n = 0 THEN 0 ELSE SumDelays(lines, n - 1) + lines[n][1].val

NonNegativeDelays(lines) ==
    \A k \in 1..Len(lines) : WellFormedLine(lines[k]) => lines[k][1].val >= 0

\* C1: for any start instant and any timing lines with non-negative delays,
\* the decoder holds one event per well-formed line read, in line order; the
\* N-th event's cumulative_time is the sum of the delays of the first N
\* well-formed lines, and its timestamp is the start plus that sum.
C1_CumulativeTimestamps ==
    ("decoder" \in calls /\ timing_log.status = "ok"
        /\ NonNegativeDelays(timing_log.lines))
    => LET accepted == WellFormed(timing_log.lines)
       IN  /\ Len(timing_events) = Len(accepted)
           /\ \A n \in 1..Len(accepted) :
                  /\ timing_events[n].delay = accepted[n][1].val
                  /\ timing_events[n].cumulative_time = SumDelays(accepted, n)
                  /\ timing_events[n].timestamp
                         = session_start_time + SumDelays(accepted, n)

\* C1's case: the lines "1.0 50" and "2.0 30" read from start 60 give the
\* timestamps 61 and 63.
C1_Witness ==
    /\ pc = "parsed"
    /\ session_start_time = 60
    /\ timing_log.lines = << <<Dec(1), Int50>>, <<Dec(2), Int30>> >>
    /\ Len(timing_events) = 2
    /\ timing_events[1].timestamp = 61
    /\ timing_events[2].timestamp = 63

\* The timestamps of a list never decrease from one element to the next.
NonDecreasing(list) ==
    \A i \in 1..(Len(list) - 1) : list[i].timestamp <= list[i + 1].timestamp

\* C2 as stated: for every timing input the decoder accepts, the timestamps
\* of the TimingEvents, of the ConversationEvents and of the messages never
\* decrease along the list.
C2_Original ==
    /\ NonDecreasing(timing_events)
    /\ NonDecreasing(conversation_events)
    /\ NonDecreasing(messages)

\* C2, amended: when no accepted delay is negative, the timestamps of the
\* TimingEvents, of the ConversationEvents and of the messages never
\* decrease along the list.
C2_MonotoneTimestamps ==
    (\A i \in 1..Len(timing_events) : timing_events[i].delay >= 0)
    => /\ NonDecreasing(timing_events)
       /\ NonDecreasing(conversation_events)
       /\ NonDecreasing(messages)

\* C2's case: two messages assembled from two events with positive delays.
C2_Witness ==
    /\ pc = "messages"
    /\ Len(timing_events) = 2
    /\ \A i \in 1..2 : timing_events[i].delay > 0
    /\ Len(messages) = 2
    /\ messages[1].timestamp < messages[2].timestamp

\* The classifier has run on a single content slice.
Classified == pc = "events" /\ "classifier" \in calls /\ Len(timing_events) = 1

TheSlice == timing_events[1].content

\* One event of the given kind is all the classifier returned.
OneEvent(kind) ==
    /\ Len(conversation_events) = 1
    /\ conversation_events[1].type = kind

\* A prompt marker occurs in the text: a prompt glyph, then a space.
HasPromptMarker(text) ==
    \E i \in 1..(Len(text) - 1) :
        /\ text[i] \in {">", "$", "PROMPT1", "PROMPT2"}
        /\ text[i + 1] = " "

\* A tool invocation occurs in the text: the bullet, a space, the identifier
\* text[i+2..j], and the argument text[j+2..k-1] in parentheses.
ToolInvocation(text, i, j, k) ==
    /\ text[i] = "BULLET"
    /\ text[i + 1] = " "
    /\ i + 2 <= j
    /\ \A m \in (i + 2)..j : text[m] \in WordChars
    /\ text[j + 1] = "("
    /\ j + 1 < k
    /\ text[k] = ")"
    /\ \A m \in (j + 2)..(k - 1) : text[m] \notin {")", "NL"}

\* C3: a slice that matches the tool-invocation marker and holds no prompt
\* marker is classified as tool usage, with the identifier in lower case as
\* the tool name and the raw text between the parentheses as the arguments.
C3_ToolInvocationIsToolUsage ==
    Classified =>
        \A i, j, k \in 1..Len(TheSlice) :
            (/\ j + 1 <= Len(TheSlice)
             /\ ToolInvocation(TheSlice, i, j, k)
             /\ ~ HasPromptMarker(TheSlice)
             /\ \A a \in 1..(i - 1) : TheSlice[a] # "BULLET")
            => /\ OneEvent("tool_usage")
               /\ conversation_events[1].tool_name = lower(SubSeq(TheSlice, i + 2, j))
               /\ conversation_events[1].tool_args = SubSeq(TheSlice, j + 2, k - 1)

\* The first category that matches, in the order user input, assistant
\* response, tool usage.
FirstMatch(content) ==
    IF is_user_input(content) THEN "user_input"
    ELSE IF is_claude_response(content) THEN "claude_response"
    ELSE IF is_tool_usage(content) THEN "tool_usage"
    ELSE "none"

\* The first half of C4: one event of the first matching kind for a slice
\* whose trimmed content is not empty, and none when nothing matches or
\* the trimmed content is empty.
FirstMatchWins ==
    LET content == strip(TheSlice)
    IN  IF content = <<>> \/ FirstMatch(content) = "none"
        THEN conversation_events = <<>>
        ELSE OneEvent(FirstMatch(content))

\* C4 as stated: one event of the first matching kind, or none; and a slice
\* that contains a prompt marker is always user input.
C4_Original ==
    Classified =>
        /\ FirstMatchWins
        /\ HasPromptMarker(TheSlice) => OneEvent("user_input")

\* C4, amended: one event of the first matching kind, or none; and a slice
\* whose trimmed content contains a prompt marker is always user input.
C4_FirstMatchWins ==
    Classified =>
        /\ FirstMatchWins
        /\ HasPromptMarker(strip(TheSlice)) => OneEvent("user_input")

\* C4's case: a slice with a prompt marker and a response marker, classified
\* as user input.
C4_Witness ==
    /\ Classified
    /\ HasPromptMarker(strip(TheSlice))
    /\ is_claude_response(strip(TheSlice))
    /\ OneEvent("user_input")

\* The number of lines of the text that are not blank.
NonEmptyLines(text) ==
    LET lines == split_lines(text)
    IN  Cardinality({ k \in 1..Len(lines) : strip(lines[k]) # <<>> })

\* User input as C5 states it.
StatedUserInput(text) ==
    \/ HasPromptMarker(text)
    \/ NonEmptyLines(text) <= 3 /\ ~ is_claude_response(text)

\* User input as the code decides it: at most three lines in all, so at most
\* two newlines, and a character that is not whitespace.
CountedUserInput(text) ==
    \/ HasPromptMarker(text)
    \/ /\ Cardinality({ i \in 1..Len(text) : text[i] = "NL" }) <= 2
       /\ \E i \in 1..Len(text) : text[i] \notin Whitespace
       /\ ~ is_claude_response(text)

\* C5 as stated: is_user_input holds of a text exactly when a prompt marker
\* occurs in it, or it has at most 3 non-empty lines and no response marker.
C5_Original ==
    (Classified /\ strip(TheSlice) # <<>>)
    => /\ is_user_input(strip(TheSlice)) <=> StatedUserInput(strip(TheSlice))
       /\ OneEvent("user_input") <=> StatedUserInput(strip(TheSlice))

\* C5, amended: is_user_input holds of a text exactly when a prompt marker
\* occurs in it, or it has at most 3 lines in all, blank lines counted, one
\* of them not blank, and no response marker.
C5_UserInput ==
    Classified =>
        /\ \A text \in {TheSlice, strip(TheSlice)} :
               is_user_input(text) <=> CountedUserInput(text)
        /\ strip(TheSlice) # <<>>
               => (OneEvent("user_input") <=> CountedUserInput(strip(TheSlice)))

\* C5's case: three non-empty lines with blank lines between them and no
\* marker are not user input.
C5_Witness ==
    /\ Classified
    /\ TheSlice = <<"x", "NL", "NL", "x", "NL", "NL", "x">>
    /\ ~ is_user_input(TheSlice)
    /\ conversation_events = <<>>

\* The correlator has returned, having read the transcript.
Correlated == pc = "detect" /\ session_log.status = "ok"

\* The contents of the events from index i on, one after the other.
RECURSIVE Contents(_, _)
Contents(events, i) ==
    IF i > Len(events) THEN <<>>
    ELSE events[i].content \o Contents(events, i + 1)

\* C6: for any transcript and any positive number of events, the contents of
\* the events, one after the other in event order, are the transcript.
C6_ContentsAreTranscript ==
    Correlated => Contents(timing_events, 1) = session_log.content

\* C6's case: a transcript shorter than the number of events.
C6_Witness ==
    /\ Correlated
    /\ Len(timing_events) = 3
    /\ session_log.content = <<"a", "x">>
    /\ Contents(timing_events, 1) = <<"a", "x">>

\* The part of the text from 0-based position from up to position to, both
\* kept within the text.
Part(text, from, to) ==
    [i \in 1..(Min(to, Len(text)) - Min(from, Len(text))) |->
        text[Min(from, Len(text)) + i]]

\* Each of the first N-1 events holds the next size characters of the
\* transcript, and the last event the rest.
SlicedBy(size) ==
    LET N == Len(timing_events)
        text == session_log.content
    IN  /\ \A i \in 1..(N - 1) :
               timing_events[i].content = Part(text, (i - 1) * size, i * size)
        /\ timing_events[N].content = Part(text, (N - 1) * size, Len(text))

\* C7 as stated: each of the first N-1 events holds exactly floor(L/N)
\* characters, in order, and the last event the rest, also when L < N.
C7_Original ==
    Correlated =>
        /\ SlicedBy(Len(session_log.content) \div Len(timing_events))
        /\ \A i \in 1..(Len(timing_events) - 1) :
               Len(timing_events[i].content)
                   = Len(session_log.content) \div Len(timing_events)

\* C7, amended: each of the first N-1 events holds the next max(1,
\* floor(L/N)) characters, or what is left of the transcript when that is
\* less, and the last event the rest; the slices are of exactly floor(L/N)
\* characters when L >= N.
C7_EqualSlices ==
    Correlated =>
        LET N == Len(timing_events)
            L == Len(session_log.content)
        IN  /\ SlicedBy(IF L \div N >= 1 THEN L \div N ELSE 1)
            /\ L >= N => \A i \in 1..(N - 1) :
                             Len(timing_events[i].content) = L \div N

\* C7's case: one character for three events goes to the first.
C7_Witness ==
    /\ Correlated
    /\ Len(timing_events) = 3
    /\ session_log.content = <<"a">>
    /\ timing_events[1].content = <<"a">>
    /\ timing_events[2].content = <<>>
    /\ timing_events[3].content = <<>>

\* C10: when the transcript cannot be read, the correlator returns: the
\* error is reported, and the events are the ones it was given, in number,
\* order, delay, cumulative time and timestamp, each with empty content.
C10_UnreadableTranscript ==
    [][(pc = "correlate" /\ session_log'.status # "ok")
       => /\ pc' = "detect"
          /\ reported' \cap {"session_log_not_found", "session_log_error"} # {}
          /\ timing_events' = timing_events
          /\ \A i \in 1..Len(timing_events') : timing_events'[i].content = <<>>]_vars

\* C10's case: two events back from a correlator that found no transcript.
C10_Witness ==
    /\ pc = "detect"
    /\ session_log.status = "missing"
    /\ "session_log_not_found" \in reported
    /\ Len(timing_events) = 2
    /\ \A i \in 1..2 : timing_events[i].content = <<>>

\* The decoder has opened the timing file and read some of its lines.
Decoding == "decoder" \in calls /\ timing_log.status = "ok"

\* The number of lines of a list that satisfy a condition.
Count(lines, Test(_)) == Len(SelectSeq(lines, Test))

\* A line of at least two fields of which the first is not a number or the
\* second not an integer.
Unparsable(parts) == Len(parts) >= 2 /\ ~WellFormedLine(parts)

\* A line of exactly two fields, a number and an integer.
TwoGoodFields(parts) == Len(parts) = 2 /\ WellFormedLine(parts)

\* A non-blank line that is not of exactly two fields, a number and an integer.
MalformedAsStated(parts) == parts # <<>> /\ ~TwoGoodFields(parts)

NoTimingData ==
    \/ timing_log.status # "ok"
    \/ Count(timing_log.lines, WellFormedLine) = 0

Assembled == pc = "messages" /\ Len(messages) = 1

\* The number of places of the text where the indicator stands, whatever
\* the case of the letters.
Occurrences(indicator, text) ==
    Cardinality({ i \in 1..Len(text) : MatchAt(lower(text), indicator, i) })

\* The indicators and their weights, in hundredths.
StatedIndicators ==
    { <<"check", 10>>, <<"successfully", 5>>, <<"completed", 5>>,
      <<"cross", -20>>, <<"error", -10>>, <<"failed", -10>> }

Indicator(name) ==
    CASE name = "check" -> <<"CHECK">>
      [] name = "successfully" -> <<"s", "u", "c", "c", "e", "s", "s", "f", "u", "l", "l", "y">>
      [] name = "completed" -> <<"c", "o", "m", "p", "l", "e", "t", "e", "d">>
      [] name = "cross" -> <<"CROSS">>
      [] name = "error" -> <<"e", "r", "r", "o", "r">>
      [] name = "failed" -> <<"f", "a", "i", "l", "e", "d">>

\* The sum over a set of indicators of occurrences times weight.
RECURSIVE WeightedSum(_, _)
WeightedSum(indicators, text) ==
    IF indicators = {} THEN 0
    ELSE LET one == CHOOSE w \in indicators : TRUE
         IN  Occurrences(Indicator(one[1]), text) * one[2]
                 + WeightedSum(indicators \ {one}, text)

Clamp(x, low, high) == IF x < low THEN low ELSE IF x > high THEN high ELSE x

\* C11: a message other than a response has no quality score; a response
\* has the score clamp(0.75 + sum of occurrences times weight, 0.1, 1.0),
\* which lies in [0.1, 1.0].
C11_QualityScore ==
    \A i \in 1..Len(messages) :
        LET m == messages[i]
        IN  IF m.message_type # "claude_response"
            THEN m.response_quality = <<>>
            ELSE /\ m.response_quality
                        = << Clamp(75 + WeightedSum(StatedIndicators, m.content), 10, 100) >>
                 /\ m.response_quality[1] \in 10..100

\* C11's case: a response with two errors and one completion scores 0.60.
C11_Witness ==
    /\ Assembled
    /\ messages[1].message_type = "claude_response"
    /\ Occurrences(Indicator("error"), messages[1].content) = 2
    /\ Occurrences(Indicator("completed"), messages[1].content) = 1
    /\ messages[1].response_quality = <<60>>

\* A response without a success indicator.
NoSuccess(m) ==
    /\ m.message_type = "claude_response"
    /\ \A name \in {"check", "successfully", "completed"} :
           Occurrences(Indicator(name), m.content) = 0

\* C12 as stated: a response with five occurrences of any one error
\* indicator and no success indicator scores 0.1.
C12_Original ==
    \A i \in 1..Len(messages) :
        \A name \in {"cross", "error", "failed"} :
            (NoSuccess(messages[i])
                /\ Occurrences(Indicator(name), messages[i].content) = 5)
            => messages[i].response_quality = <<10>>

\* C12, amended: a response with five occurrences of the error glyph and no
\* success indicator scores 0.1, the floor; five occurrences of 'error' or
\* of 'failed' and no other indicator give 0.25, and seven or more give 0.1.
C12_FloorScore ==
    \A i \in 1..Len(messages) :
        LET m == messages[i]
            crosses == Occurrences(Indicator("cross"), m.content)
            words == Occurrences(Indicator("error"), m.content)
                        + Occurrences(Indicator("failed"), m.content)
        IN  NoSuccess(m) =>
                /\ crosses = 5 => m.response_quality = <<10>>
                /\ (crosses = 0 /\ words = 5) => m.response_quality = <<25>>
                /\ (crosses = 0 /\ words >= 7) => m.response_quality = <<10>>

\* C12's case: a response of five error glyphs has the floor score, where
\* the sum is below it.
C12_Witness ==
    /\ Assembled
    /\ NoSuccess(messages[1])
    /\ Occurrences(Indicator("cross"), messages[1].content) = 5
    /\ WeightedSum(StatedIndicators, messages[1].content) = -100
    /\ messages[1].response_quality = <<10>>

\* The tags in the order of their declaration.
StatedTags == <<"ai-agent-host", "python", "docker", "database">>

\* The summed count of the patterns of the n-th tag in the text.
TagScore(n, text) ==
    LET k == CHOOSE j \in 1..Len(project_tag_patterns) :
                 project_tag_patterns[j].project = StatedTags[n]
    IN  ProjectScore(project_tag_patterns[k].patterns, lower(text), 1)

\* C13: the tag of a message is the one with the highest summed count,
\* when that is above zero; among tags with the highest count it is the
\* first declared; when every count is zero there is no tag.
C13_ProjectTag ==
    \A i \in 1..Len(messages) :
        LET text == messages[i].content
            tag == messages[i].project_tag
        IN  IF \A n \in 1..4 : TagScore(n, text) = 0
            THEN tag = <<>>
            ELSE \E n \in 1..4 :
                    /\ tag = << StatedTags[n] >>
                    /\ TagScore(n, text) > 0
                    /\ \A o \in 1..4 : TagScore(o, text) <= TagScore(n, text)
                    /\ \A o \in 1..(n - 1) : TagScore(o, text) < TagScore(n, text)

\* C13's case: python and database have one match each and the others
\* none: the tag is python, declared before database.
C13_Witness ==
    /\ Assembled
    /\ TagScore(1, messages[1].content) = 0
    /\ TagScore(2, messages[1].content) = 1
    /\ TagScore(3, messages[1].content) = 0
    /\ TagScore(4, messages[1].content) = 1
    /\ messages[1].project_tag = <<"python">>

\* parse_session_to_messages has returned.
AssemblerReturned ==
    \/ pc \in {"messages", "insert"}
    \/ pc = "exit" /\ "decoder" \in calls

\* C14: the assembler returns one message per event of the classifier, in
\* the order of the events, message i with the timestamp, kind and content
\* of event i; every message has the session id of the metadata document,
\* or 'unknown' when the document cannot be read.
C14_OrderPreserved ==
    AssemblerReturned =>
        /\ Len(messages) = Len(conversation_events)
        /\ \A i \in 1..Len(messages) :
               /\ messages[i].timestamp = conversation_events[i].timestamp
               /\ messages[i].message_type = conversation_events[i].type
               /\ messages[i].content = conversation_events[i].content
               /\ messages[i].session_id
                      = IF meta_file.status = "ok" THEN meta_file.session_id
                        ELSE "unknown"

\* C14's case: two events of different kinds and times have become two
\* messages of a session whose metadata could not be read.
C14_Witness ==
    /\ pc = "messages"
    /\ meta_file.status = "missing"
    /\ Len(conversation_events) = 2
    /\ conversation_events[1].type = "user_input"
    /\ conversation_events[2].type = "claude_response"
    /\ conversation_events[1].timestamp < conversation_events[2].timestamp
    /\ Len(messages) = 2
    /\ messages[1].message_type = "user_input"
    /\ messages[2].session_id = "unknown"

\* The start instants a run on the metadata document of this run can have:
\* the one of the document, or the clock's when it cannot be read.
PossibleStarts ==
    IF meta_file.status = "ok" THEN {meta_file.start_time} ELSE StartInstants

\* C15: when the assembler returns, a second run of the pipeline on the
\* timing lines, transcript, metadata and start instant of this run returns
\* the messages of this run, equal in length and in every field.
C15_Idempotent ==
    pc = "messages" =>
        \A start \in PossibleStarts :
            start = session_start_time =>
                LET again == parse_session_to_messages(session_log, timing_log,
                                                       meta_file, start)
                IN  /\ Len(again) = Len(messages)
                    /\ \A i \in 1..Len(messages) :
                           /\ again[i].timestamp = messages[i].timestamp
                           /\ again[i].message_type = messages[i].message_type
                           /\ again[i].content = messages[i].content
                           /\ again[i].raw_content = messages[i].raw_content
                           /\ again[i].tool_used = messages[i].tool_used
                           /\ again[i].project_tag = messages[i].project_tag
                           /\ again[i].file_modified = messages[i].file_modified
                           /\ again[i].context_tokens = messages[i].context_tokens
                           /\ again[i].response_quality = messages[i].response_quality
                           /\ again[i].session_id = messages[i].session_id

\* C15's case: a run of two events has returned a prompt and a response,
\* and the second run returns the same two messages.
C15_Witness ==
    /\ pc = "messages"
    /\ Len(timing_events) = 2
    /\ Len(messages) = 2
    /\ messages[1].message_type = "user_input"
    /\ messages[2].message_type = "claude_response"
    /\ messages[2].response_quality = <<75>>
    /\ parse_session_to_messages(session_log, timing_log, meta_file,
                                 session_start_time) = messages

\* The batch sink is at work on a list of messages, or has returned.
SinkAtWork == pc = "insert" \/ (pc = "exit" /\ messages # <<>>)

\* The first k messages have gone, in their order, to the first s successes
\* and the first f failures.
RECURSIVE Dealt(_, _, _)
Dealt(k, s, f) ==
    IF k = 0 THEN s = 0 /\ f = 0
    ELSE \/ /\ s > 0
            /\ successful_messages[s] = messages[k]
            /\ Dealt(k - 1, s - 1, f)
         \/ /\ f > 0
            /\ failed_messages[f].message = messages[k]
            /\ failed_messages[f].error # ""
            /\ Dealt(k - 1, s, f - 1)

\* C16: the batch sink attempts the messages one by one in their order,
\* each once, whether earlier ones failed or not; each failure is recorded
\* with its message and an error; when it returns, the successes and the
\* failures add up to the number of messages.
C16_EveryMessageAttempted ==
    SinkAtWork =>
        /\ attempts <= Len(messages)
        /\ Len(successful_messages) + Len(failed_messages) = attempts
        /\ Dealt(attempts, Len(successful_messages), Len(failed_messages))
        /\ pc = "exit" => attempts = Len(messages)

\* C16's case: the first of two messages failed and the second was still
\* written.
C16_Witness ==
    /\ pc = "exit"
    /\ Len(messages) = 2
    /\ Len(failed_messages) = 1
    /\ failed_messages[1].message = messages[1]
    /\ successful_messages = << messages[2] >>
    /\ Len(rows) = 1

\* C17: when the batch sink has processed a list of messages, the run ends
\* with status 0 if no message failed and with another status if one
\* failed; the connection is closed at every exit after it was opened.
C17_ExitStatus ==
    pc = "exit" =>
        /\ connection # "open"
        /\ attempts > 0 =>
               /\ exit_status = 0 <=> failed_messages = <<>>
               /\ exit_status >= 0
               /\ connection = "closed"

\* C17's case: a run wrote one message, failed on the other and ended with
\* status 2 and a closed connection.
C17_Witness ==
    /\ pc = "exit"
    /\ "classifier" \in calls
    /\ Len(messages) = 2
    /\ Len(rows) = 1
    /\ Len(failed_messages) = 1
    /\ exit_status = 2
    /\ connection = "closed"

\* A message the sink is to refuse: no timestamp, no session id, content
\* empty or of whitespace only, a kind outside the four, content above the
\* ceiling, or a score outside [0, 1].
StatedInvalid(m) ==
    \/ "timestamp" \notin DOMAIN m
    \/ m.session_id = ""
    \/ \A i \in 1..Len(m.content) : m.content[i] \in Whitespace
    \/ m.message_type \notin {"user_input", "claude_response", "tool_usage", "system_info"}
    \/ Len(m.content) > 100000
    \/ \E i \in 1..Len(m.response_quality) :
           m.response_quality[i] < 0 \/ m.response_quality[i] > 100

\* C18: a message with one of the stated defects is never written and comes
\* back as a failure with an error; every row is the row of a message
\* without any of them.
C18_ValidatedBeforeWrite ==
    SinkAtWork =>
        /\ \A k \in 1..attempts :
               StatedInvalid(messages[k]) =>
                   /\ \A r \in 1..Len(successful_messages) :
                          successful_messages[r] # messages[k]
                   /\ \E f \in 1..Len(failed_messages) :
                          /\ failed_messages[f].message = messages[k]
                          /\ failed_messages[f].error \notin {"", "write error"}
        /\ Len(rows) = Len(successful_messages)
        /\ \A r \in 1..Len(rows) :
               /\ ~ StatedInvalid(successful_messages[r])
               /\ rows[r].content = successful_messages[r].content
               /\ rows[r].session_id = successful_messages[r].session_id
               /\ rows[r].message_type = successful_messages[r].message_type

\* C18's case: a message with a score above 1 was refused and a message
\* with the score 1 was written.
C18_Witness ==
    /\ pc = "exit"
    /\ Len(messages) = 2
    /\ messages[1].response_quality = <<101>>
    /\ messages[2].response_quality = <<100>>
    /\ Len(failed_messages) = 1
    /\ failed_messages[1].error = "Invalid response_quality"
    /\ rows = << Row(messages[2]) >>

\* A run of the streaming sink.
Streaming == pc \in {"stream_main", "stream_connected", "stream_exit"}

\* The first n characters of a text, or all of it when it has fewer.
FirstChars(text, n) == [i \in 1..(IF Len(text) < n THEN Len(text) ELSE n) |-> text[i]]

\* The content of the object the streaming sink was given.
GivenContent == IF messages[1].content = <<>> THEN <<>> ELSE messages[1].content[1]

\* C19 as stated: every row of the streaming sink holds the first 10,000
\* characters of the content and is marked as streaming; every row of the
\* batch sink is marked as not streaming.
C19_Original ==
    \A r \in 1..Len(rows) :
        IF Streaming
        THEN /\ rows[r].content = FirstChars(GivenContent, 10000)
             /\ rows[r].streaming = TRUE
        ELSE rows[r].streaming = FALSE

\* C19, amended: every row of the streaming sink holds the first 10,000
\* characters of the content and carries the streaming value of the object
\* it was given, or true when the object has none; every row of the batch
\* sink is marked as not streaming.
C19_Truncated ==
    \A r \in 1..Len(rows) :
        IF Streaming
        THEN /\ rows[r].content = FirstChars(GivenContent, 10000)
             /\ rows[r].streaming
                    = (IF messages[1].streaming = <<>> THEN TRUE
                       ELSE messages[1].streaming[1])
        ELSE rows[r].streaming = FALSE

\* C19's case: an object of 10,001 characters without a streaming value was
\* written as a row of 10,000 characters marked as streaming.
C19_Witness ==
    /\ pc = "stream_exit"
    /\ messages[1].streaming = <<>>
    /\ Len(GivenContent) = 10001
    /\ Len(rows) = 1
    /\ Len(rows[1].content) = 10000
    /\ rows[1].content[1] = "a"
    /\ rows[1].streaming = TRUE

\* The classifier has kept the one slice of the run as an event.
Retained == Classified /\ Len(conversation_events) = 1

\* C20 as stated: the content of a retained event is its slice without the
\* escape sequences and with every run of whitespace as one space, and its
\* raw content is the slice, character for character.
C20_Original ==
    Retained =>
        /\ conversation_events[1].content = CollapseWhitespace(RemoveAnsi(TheSlice))
        /\ conversation_events[1].raw_content = TheSlice

\* C20, amended: the raw content of a retained event is its slice without
\* the whitespace at its two ends, and otherwise character for character;
\* the content is the raw content without the escape sequences, with every
\* run of whitespace as one space, and without whitespace at its two ends.
C20_CleanAndRaw ==
    Retained =>
        LET raw == conversation_events[1].raw_content
            content == conversation_events[1].content
        IN  /\ raw = strip(TheSlice)
            /\ content = strip(CollapseWhitespace(RemoveAnsi(raw)))
            /\ \A i \in 1..Len(content) :
                   /\ content[i] \notin {"ESC", "NL"}
                   /\ (i < Len(content) /\ content[i] = " ") => content[i + 1] # " "
            /\ content # <<>> => content[1] # " " /\ content[Len(content)] # " "

\* C20's case: a slice that begins with whitespace and holds an escape
\* sequence is kept without the one in its raw content and without both in
\* its content.
C20_Witness ==
    /\ Retained
    /\ TheSlice[1] \in Whitespace
    /\ "ESC" \in Range(TheSlice)
    /\ conversation_events[1].raw_content = Tail(TheSlice)
    /\ "ESC" \in Range(conversation_events[1].raw_content)
    /\ "ESC" \notin Range(conversation_events[1].content)
    /\ conversation_events[1].content # <<>>

(***************************************************************************)
(* C21.  Sessions processed together.                                      *)
(***************************************************************************)

\* The invocations whose decoder has started.
Decoded == { session \in Sessions : pc[session] \in {"parse", "parsed"} }

\* The delays of the lines of a timing file that gave an event.
RECURSIVE OwnDelays(_)
OwnDelays(lines) ==
    IF lines = <<>> THEN <<>>
    ELSE LET parts == lines[Len(lines)]
             before == OwnDelays(SubSeq(lines, 1, Len(lines) - 1))
         IN  IF Len(parts) >= 2 /\ parts[1].kind # "junk" /\ parts[2].kind = "int"
             THEN Append(before, parts[1].val)
             ELSE before

RECURSIVE SumOf(_, _)
SumOf(delays, n) == IF n = 0 THEN 0 ELSE SumOf(delays, n - 1) + delays[n]

\* C21: with sessions processed one after the other or interleaved, the
\* TimingEvents of each session are those of processing that session alone
\* from the same start instant: every cumulative time is the sum of the
\* delays of the session's own lines up to that event, counted from zero,
\* and every timestamp is the session's start plus that sum.
C21_SessionsIndependent ==
    \A session \in Decoded :
        LET events == timing_events[session]
            delays == OwnDelays(timing_log[session].lines)
        IN  /\ events = parse_script_timing_file(timing_log[session],
                                                 session_start_time[session])
            /\ Len(events) = Len(delays)
            /\ \A i \in 1..Len(events) :
                   /\ events[i].cumulative_time = SumOf(delays, i)
                   /\ events[i].timestamp =
                          session_start_time[session] + SumOf(delays, i)

\* Both sessions are in the middle of their timing files, each with an event
\* decoded, and the first has decoded a second one since.
C21_Witness ==
    /\ \A session \in Sessions : pc[session] = "parse"
    /\ Len(timing_events[1]) = 2
    /\ Len(timing_events[2]) = 1
    /\ timing_events[1][1].delay = 1
    /\ timing_events[2][1].delay = 2
    /\ timing_events[1][2].cumulative_time = 3
    /\ session_start_time[1] # session_start_time[2]

(***************************************************************************)
(* C22.  The tool name of a tool_usage event.                              *)
(***************************************************************************)

Unknown == <<"u", "n", "k", "n", "o", "w", "n">>

C23_NeverRejected ==
    AssemblerReturned =>
        /\ \A i \in 1..Len(messages) :
               messages[i].session_id # "" => ~ StatedInvalid(messages[i])
        /\ \A f \in 1..Len(failed_messages) :
               failed_messages[f].message.session_id # "" =>
                   failed_messages[f].error = "write error"

====
